---- MODULE Spec2Model ----
(***************************************************************************)
(* Model of charms.comsys_libs.v0.kubernetes_statefulset_patch:            *)
(* KubernetesStatefulsetPatch binds _patch_statefulset (reconcile) and     *)
(* _remove_statefulset (teardown) to charm lifecycle events and talks to   *)
(* one StatefulSet through GET, PATCH (merge) and DELETE.                  *)
(***************************************************************************)
EXTENDS Integers, Sequences, FiniteSets, TLC

(* ---------------------------- bounds ----------------------------------- *)
\* desired quantities range over 1..MaxQty (memory "<i>Gi", cpu the number i)
MaxQty == 2
\* quantities an external writer puts on the live object: 1..MaxLiveQty
MaxLiveQty == 1
\* events a caller passes in a refresh_event list: at most this many
MaxRefresh == 2

(* ------------------------- python values ------------------------------- *)
\* Python values are tagged so that 1 == "1" is False, as in Python.
PyNone == [t |-> "None", v |-> "None"]
PyStr(s) == [t |-> "str", v |-> s]
PyInt(n) == [t |-> "int", v |-> n]

\* Python's == on the values above
PyEq(a, b) == a.t = b.t /\ (a.t = "None" \/ a.v = b.v)

Digit(d) ==
  CASE d = 0 -> "0" [] d = 1 -> "1" [] d = 2 -> "2" [] d = 3 -> "3"
    [] d = 4 -> "4" [] d = 5 -> "5" [] d = 6 -> "6" [] d = 7 -> "7"
    [] d = 8 -> "8" [] d = 9 -> "9"

RECURSIVE IntToString(_)
IntToString(n) ==
  IF n < 10 THEN Digit(n) ELSE IntToString(n \div 10) \o Digit(n % 10)

\* Python's str(): identity on str, decimal digits of an int, "None" for None
str(x) ==
  CASE x.t = "str" -> x
    [] x.t = "int" -> PyStr(IntToString(x.v))
    [] x.t = "None" -> PyStr("None")

\* dict.get(key): the value, or None when the key is missing
DictGet(d, k) == IF k \in DOMAIN d THEN d[k] ELSE PyNone

\* `x or {}` for a limits/requests field that is None or a dict
EmptyDict == [k \in {} |-> PyNone]
OrEmpty(x) == IF x = PyNone THEN EmptyDict ELSE x

\* d with d[k] = v set (dict item assignment)
DictSet(d, k, v) == [j \in (DOMAIN d) \cup {k} |-> IF j = k THEN v ELSE d[j]]

(* ------------------------- value domains ------------------------------- *)
ResourceKeys == {"memory", "cpu"}
ContainerNames == {"charm", "app"}

MemQty(i) == PyStr(IntToString(i) \o "Gi")
CpuQty(i) == PyStr(IntToString(i))

\* a dict over a subset of the resource keys, memory from ms and cpu from cs
Dicts(ms, cs) ==
  UNION { { d \in [ks -> ms \cup cs] :
              /\ ("memory" \in ks => d["memory"] \in ms)
              /\ ("cpu" \in ks => d["cpu"] \in cs) } : ks \in SUBSET ResourceKeys }

\* resource specs a caller may pass for one container: memory is a quantity
\* string, cpu a number
DesiredSpecs ==
  Dicts({MemQty(i) : i \in 1..MaxQty}, {PyInt(i) : i \in 1..MaxQty})

\* a spec whose cpu is already a quantity string
StringSpec ==
  [k \in ResourceKeys |-> IF k = "memory" THEN MemQty(MaxQty) ELSE CpuQty(MaxQty)]

\* limits / requests as the API returns them: None when unset, else a dict
LiveDicts ==
  (Dicts({MemQty(i) : i \in 1..MaxLiveQty}, {CpuQty(i) : i \in 1..MaxLiveQty})
     \ {EmptyDict}) \cup {PyNone}

(* --------------------------- the StatefulSet --------------------------- *)
\* a container of the pod template: name, resources.limits, resources.requests
Container(n, l, r) == [name |-> n, limits |-> l, requests |-> r]

\* the object behind (name, namespace): absent, or its containers in order
NoObject == [exists |-> FALSE, containers |-> << >>]
Object(cs) == [exists |-> TRUE, containers |-> cs]

(* ----------------------------- the library ----------------------------- *)
VARIABLES
  resource_updates,  \* self.resource_updates: container name -> resources dict
  refresh_event,     \* the refresh_event argument of the constructor
  observers,         \* framework.observe registrations, in order: <<event, handler>>
  live,              \* the StatefulSet in the cluster
  last,              \* what the latest step did (handler invocation or external write)
  prev,              \* summary of the step before `last`
  event,             \* the lifecycle event emitted latest
  dispatched         \* handlers that event ran, in order

vars == <<resource_updates, refresh_event, observers, live, last, prev, event, dispatched>>

\* _build_resource_requirements: limits and requests get the same entries
BuildDict(resources) ==
  LET d0 == EmptyDict
      d1 == IF "memory" \in DOMAIN resources
              THEN DictSet(d0, "memory", resources["memory"]) ELSE d0
      d2 == IF "cpu" \in DOMAIN resources
              THEN DictSet(d1, "cpu", str(resources["cpu"])) ELSE d1
  IN d2

\* a build that leaves cpu out of the requests
build_without_cpu_request(resources) ==
  [limits |-> BuildDict(resources),
   requests |-> [k \in (DOMAIN BuildDict(resources)) \ {"cpu"} |-> BuildDict(resources)[k]]]

_build_resource_requirements(resources) ==
  [limits |-> BuildDict(resources), requests |-> BuildDict(resources)]

\* _is_patched: both checks are made whether or not the key is in resources
desired_memory(resources) == DictGet(resources, "memory")
\* the desired cpu compared as supplied, without str()
desired_cpu_uncoerced(resources) == DictGet(resources, "cpu")

desired_cpu(resources) == str(DictGet(resources, "cpu"))

is_memory_patched(container, resources) ==
  /\ PyEq(DictGet(OrEmpty(container.limits), "memory"), desired_memory(resources))
  /\ PyEq(DictGet(OrEmpty(container.requests), "memory"), desired_memory(resources))

is_cpu_patched(container, resources) ==
  /\ PyEq(DictGet(OrEmpty(container.limits), "cpu"), desired_cpu(resources))
  /\ PyEq(DictGet(OrEmpty(container.requests), "cpu"), desired_cpu(resources))

\* a check that compares only the keys the desired spec names
is_patched_named_keys_only(container, resources) ==
  /\ "memory" \in DOMAIN resources => is_memory_patched(container, resources)
  /\ "cpu" \in DOMAIN resources => is_cpu_patched(container, resources)

\* a check that looks at the limits only
is_patched_limits_only(container, resources) ==
  /\ PyEq(DictGet(OrEmpty(container.limits), "memory"), desired_memory(resources))
  /\ PyEq(DictGet(OrEmpty(container.limits), "cpu"), desired_cpu(resources))

_is_patched(container, resources) ==
  is_memory_patched(container, resources) /\ is_cpu_patched(container, resources)

\* the loop of _patch_statefulset over statefulset.spec.template.spec.containers:
\* the containers after the loop and the value of needs_patching
\* d overlaid with the entries of e (a per-key merge)
Overlay(d, e) ==
  [k \in (DOMAIN d) \cup (DOMAIN e) |-> IF k \in DOMAIN e THEN e[k] ELSE d[k]]

\* a loop that merges the desired entries into the container's limits and
\* requests instead of replacing them
patch_loop_merging(updates, cs, i, needs) ==
  LET differs(j) == cs[j].name \in DOMAIN updates
                      /\ ~_is_patched(cs[j], updates[cs[j].name])
      merged(c) == LET rr == _build_resource_requirements(updates[c.name])
                   IN [c EXCEPT !.limits = Overlay(OrEmpty(c.limits), rr.limits),
                                !.requests = Overlay(OrEmpty(c.requests), rr.requests)]
  IN [containers |-> [j \in 1..Len(cs) |->
                        IF j >= i /\ differs(j) THEN merged(cs[j]) ELSE cs[j]],
      needs_patching |-> needs \/ \E j \in i..Len(cs) : differs(j)]

RECURSIVE PatchLoop(_, _, _, _)
PatchLoop(updates, cs, i, needs) ==
  IF i > Len(cs) THEN [containers |-> cs, needs_patching |-> needs]
  ELSE LET c == cs[i] IN
    IF c.name \in DOMAIN updates
      THEN IF _is_patched(c, updates[c.name])
             THEN PatchLoop(updates, cs, i + 1, needs)
             ELSE LET rr == _build_resource_requirements(updates[c.name])
                      c2 == [c EXCEPT !.limits = rr.limits, !.requests = rr.requests]
                  IN PatchLoop(updates, [cs EXCEPT ![i] = c2], i + 1, TRUE)
      ELSE PatchLoop(updates, cs, i + 1, needs)

(* ------------------------ API calls and their failures ------------------ *)
\* One invocation ends at its first exception, so one fault per invocation
\* covers every outcome: where it strikes and, for an ApiError, its status code.
ErrorCodes == {403, 500}
NoFault == [at |-> "none", code |-> 0]
Faults ==
  {NoFault} \cup
  {[at |-> a, code |-> 0] : a \in {"client", "namespace"}} \cup
  {[at |-> a, code |-> c] : a \in {"get", "patch", "delete"}, c \in ErrorCodes}

\* what one step did: the handler run, the API calls it made in order, the
\* exception it raised to its caller ("none" when it returned), the status of
\* its last API call (0 when it made none), the object GET returned and the
\* object handed to PATCH
Rec(op, calls, raised, code, got, sent) ==
  [op |-> op, calls |-> calls, raised |-> raised, code |-> code,
   got |-> got, sent |-> sent]

NoRec(op) == Rec(op, << >>, "none", 0, << >>, << >>)

\* a reconcile that sends a failed PATCH a second time
patch_fetched_retrying(updates, obj, f) ==
  LET statefulset == obj.containers
      loop == PatchLoop(updates, statefulset, 1, FALSE)
  IN IF loop.needs_patching
       THEN IF f.at = "patch"
              THEN [live |-> Object(loop.containers),
                    rec |-> Rec("reconcile", <<"GET", "PATCH", "PATCH">>, "none", 200,
                                statefulset, loop.containers)]
              ELSE [live |-> Object(loop.containers),
                    rec |-> Rec("reconcile", <<"GET", "PATCH">>, "none", 200,
                                statefulset, loop.containers)]
       ELSE [live |-> obj,
             rec |-> Rec("reconcile", <<"GET">>, "none", 200, statefulset, << >>)]

\* a reconcile that sends the PATCH whether or not the loop changed anything
patch_fetched_always(updates, obj, f) ==
  LET statefulset == obj.containers
      loop == PatchLoop(updates, statefulset, 1, FALSE)
  IN IF f.at = "patch"
       THEN [live |-> obj,
             rec |-> Rec("reconcile", <<"GET", "PATCH">>, "ApiError", f.code,
                         statefulset, loop.containers)]
       ELSE [live |-> Object(loop.containers),
             rec |-> Rec("reconcile", <<"GET", "PATCH">>, "none", 200,
                         statefulset, loop.containers)]

\* reconcile, after client.get returned the object: the loop and the PATCH
PatchFetched(updates, obj, f) ==
  LET statefulset == obj.containers
      loop == PatchLoop(updates, statefulset, 1, FALSE)
  IN IF loop.needs_patching
       THEN IF f.at = "patch"
              THEN [live |-> obj,
                    rec |-> Rec("reconcile", <<"GET", "PATCH">>, "ApiError", f.code,
                                statefulset, loop.containers)]
              ELSE [live |-> Object(loop.containers),
                    rec |-> Rec("reconcile", <<"GET", "PATCH">>, "none", 200,
                                statefulset, loop.containers)]
       ELSE [live |-> obj,
             rec |-> Rec("reconcile", <<"GET">>, "none", 200, statefulset, << >>)]

\* a reconcile that logs a missing object and returns instead of raising
patch_ignoring_not_found(updates, obj, f) ==
  IF f.at = "client"
    THEN [live |-> obj, rec |-> Rec("reconcile", << >>, "ConfigError", 0, << >>, << >>)]
  ELSE IF f.at = "namespace"
    THEN [live |-> obj, rec |-> Rec("reconcile", << >>, "OSError", 0, << >>, << >>)]
  ELSE IF f.at = "get"
    THEN [live |-> obj, rec |-> Rec("reconcile", <<"GET">>, "ApiError", f.code, << >>, << >>)]
  ELSE IF ~obj.exists
    THEN [live |-> obj, rec |-> Rec("reconcile", <<"GET">>, "none", 404, << >>, << >>)]
  ELSE PatchFetched(updates, obj, f)

\* reconcile: _patch_statefulset
_patch_statefulset(updates, obj, f) ==
  IF f.at = "client"
    THEN [live |-> obj, rec |-> Rec("reconcile", << >>, "ConfigError", 0, << >>, << >>)]
  ELSE IF f.at = "namespace"
    THEN [live |-> obj, rec |-> Rec("reconcile", << >>, "OSError", 0, << >>, << >>)]
  ELSE IF f.at = "get"
    THEN [live |-> obj, rec |-> Rec("reconcile", <<"GET">>, "ApiError", f.code, << >>, << >>)]
  ELSE IF ~obj.exists
    THEN [live |-> obj, rec |-> Rec("reconcile", <<"GET">>, "ApiError", 404, << >>, << >>)]
  ELSE PatchFetched(updates, obj, f)

\* a teardown that looks the object up first and deletes it only when found
remove_after_get(obj, f) ==
  IF f.at = "client"
    THEN [live |-> obj, rec |-> Rec("teardown", << >>, "ConfigError", 0, << >>, << >>)]
  ELSE IF f.at = "namespace"
    THEN [live |-> obj, rec |-> Rec("teardown", << >>, "OSError", 0, << >>, << >>)]
  ELSE IF ~obj.exists
    THEN [live |-> obj, rec |-> Rec("teardown", <<"GET">>, "none", 404, << >>, << >>)]
  ELSE IF f.at = "delete"
    THEN [live |-> obj,
          rec |-> Rec("teardown", <<"GET", "DELETE">>, "ApiError", f.code, << >>, << >>)]
  ELSE [live |-> NoObject,
        rec |-> Rec("teardown", <<"GET", "DELETE">>, "none", 200, << >>, << >>)]

\* a teardown that swallows every ApiError, not only 404
remove_swallowing_all(obj, f) ==
  IF f.at = "client"
    THEN [live |-> obj, rec |-> Rec("teardown", << >>, "ConfigError", 0, << >>, << >>)]
  ELSE IF f.at = "namespace"
    THEN [live |-> obj, rec |-> Rec("teardown", << >>, "OSError", 0, << >>, << >>)]
  ELSE IF f.at = "delete"
    THEN [live |-> obj, rec |-> Rec("teardown", <<"DELETE">>, "none", f.code, << >>, << >>)]
  ELSE IF ~obj.exists
    THEN [live |-> obj, rec |-> Rec("teardown", <<"DELETE">>, "none", 404, << >>, << >>)]
  ELSE [live |-> NoObject, rec |-> Rec("teardown", <<"DELETE">>, "none", 200, << >>, << >>)]

\* teardown: _remove_statefulset
_remove_statefulset(obj, f) ==
  IF f.at = "client"
    THEN [live |-> obj, rec |-> Rec("teardown", << >>, "ConfigError", 0, << >>, << >>)]
  ELSE IF f.at = "namespace"
    THEN [live |-> obj, rec |-> Rec("teardown", << >>, "OSError", 0, << >>, << >>)]
  ELSE IF f.at = "delete"
    THEN [live |-> obj, rec |-> Rec("teardown", <<"DELETE">>, "ApiError", f.code, << >>, << >>)]
  ELSE IF ~obj.exists
    \* ApiError with e.status.code == 404: return
    THEN [live |-> obj, rec |-> Rec("teardown", <<"DELETE">>, "none", 404, << >>, << >>)]
  ELSE [live |-> NoObject, rec |-> Rec("teardown", <<"DELETE">>, "none", 200, << >>, << >>)]

(* --------------------------- event binding ------------------------------ *)
Events == {"install", "update_status", "remove", "config_changed", "upgrade_charm"}

\* the refresh_event argument: None, one BoundEvent, or a list of BoundEvents
RefreshNone == [kind |-> "None", evts |-> << >>]
RefreshOne(e) == [kind |-> "event", evts |-> <<e>>]
RefreshList(es) == [kind |-> "list", evts |-> es]

\* The events a caller passes: each at most once, and none of the two the
\* constructor binds to reconcile itself (what the framework does with a
\* handler registered twice for one event is outside this library).
RefreshPool == Events \ {"install", "update_status"}

RefreshChoices ==
  {RefreshNone} \cup {RefreshOne(e) : e \in RefreshPool} \cup
  UNION { {RefreshList(es) : es \in {x \in [1..n -> RefreshPool] :
                                       \A i, j \in 1..n : i # j => x[i] # x[j]}}
          : n \in 0..MaxRefresh }

\* __init__: the framework.observe calls, in order
\* a constructor that forgets the update_status binding
observe_without_update_status(refresh) ==
  << <<"install", "_patch_statefulset">>,
     <<"remove", "_remove_statefulset">> >> \o
  [i \in 1..Len(refresh.evts) |-> <<refresh.evts[i], "_patch_statefulset">>]

Observe(refresh) ==
  << <<"install", "_patch_statefulset">>,
     <<"update_status", "_patch_statefulset">>,
     <<"remove", "_remove_statefulset">> >> \o
  [i \in 1..Len(refresh.evts) |-> <<refresh.evts[i], "_patch_statefulset">>]

\* the handlers the framework calls for event e, in registration order
HandlersOf(obs, e) ==
  LET sel == SelectSeq(obs, LAMBDA o : o[1] = e)
  IN [i \in 1..Len(sel) |-> sel[i][2]]

RunHandler(h, updates, obj, f) ==
  IF h = "_patch_statefulset" THEN _patch_statefulset(updates, obj, f)
  ELSE _remove_statefulset(obj, f)

\* the faults that can strike handler h: it makes no other API call
FaultsOf(h) ==
  {f \in Faults : f.at # (IF h = "_patch_statefulset" THEN "delete" ELSE "get")
                  /\ f.at # (IF h = "_patch_statefulset" THEN "delete" ELSE "patch")}

\* the framework calls the handlers one after the other; an exception leaves
\* the dispatch.  The set of possible results, over the faults of each call.
RECURSIVE RunHandlers(_, _, _, _, _)
RunHandlers(hs, updates, obj, i, recs) ==
  IF i > Len(hs) THEN {[live |-> obj, recs |-> recs]}
  ELSE UNION { LET r == RunHandler(hs[i], updates, obj, f)
               IN IF r.rec.raised # "none"
                    THEN {[live |-> r.live, recs |-> Append(recs, r.rec)]}
                    ELSE RunHandlers(hs, updates, r.live, i + 1, Append(recs, r.rec))
               : f \in FaultsOf(hs[i]) }

\* a reconcile whose PATCH was applied
Patched(rec) ==
  rec.op = "reconcile" /\ rec.raised = "none" /\ rec.calls = <<"GET", "PATCH">>

Summary(rec) == IF Patched(rec) THEN "patched" ELSE "other"

\* the handlers hs run, one after the other
Ran(hs) ==
  \E out \in RunHandlers(hs, resource_updates, live, 1, << >>) :
    LET all == <<last>> \o out.recs
        n == Len(all)
    IN /\ live' = out.live
       /\ last' = all[n]
       /\ prev' = IF n = 1 THEN prev ELSE Summary(all[n - 1])
       /\ dispatched' = [i \in 1..Len(out.recs) |->
                           IF out.recs[i].op = "reconcile"
                             THEN "_patch_statefulset" ELSE "_remove_statefulset"]

(* ------------------------------ actions --------------------------------- *)
\* a direct call of reconcile()
Reconcile ==
  /\ Ran(<<"_patch_statefulset">>)
  /\ event' = "none"
  /\ UNCHANGED <<resource_updates, refresh_event, observers>>

\* a direct call of teardown()
Teardown ==
  /\ Ran(<<"_remove_statefulset">>)
  /\ event' = "none"
  /\ UNCHANGED <<resource_updates, refresh_event, observers>>

\* the framework emits lifecycle event e
Emit(e) ==
  /\ Ran(HandlersOf(observers, e))
  /\ event' = e
  /\ UNCHANGED <<resource_updates, refresh_event, observers>>

Install == Emit("install")
UpdateStatus == Emit("update_status")
Remove == Emit("remove")
ConfigChanged == Emit("config_changed")
UpgradeCharm == Emit("upgrade_charm")

\* the pod template Juju deploys: no resources set on any container
Fresh(names) == Object([i \in 1..Len(names) |-> Container(names[i], PyNone, PyNone)])

\* an external writer (kubectl edit) replaces the limits or the requests of
\* the charm container
ExternalWrite ==
  /\ live.exists
  /\ \E i \in 1..Len(live.containers), d \in LiveDicts, which \in {"limits", "requests"} :
       /\ live.containers[i].name = "charm"
       /\ live' = Object([live.containers EXCEPT ![i] =
                     IF which = "limits" THEN [@ EXCEPT !.limits = d]
                                         ELSE [@ EXCEPT !.requests = d]])
  /\ live' # live
  /\ last' = NoRec("external")
  /\ prev' = Summary(last)
  /\ UNCHANGED <<resource_updates, refresh_event, observers, event, dispatched>>

\* Juju applies the application's constraints: the same limits and requests
\* on every container of the StatefulSet
Constraint ==
  [k \in ResourceKeys |-> IF k = "memory" THEN MemQty(1) ELSE CpuQty(1)]

JujuConstraints ==
  /\ live.exists
  /\ live' = Object([i \in 1..Len(live.containers) |->
                       Container(live.containers[i].name, Constraint, Constraint)])
  /\ live' # live
  /\ last' = NoRec("external")
  /\ prev' = Summary(last)
  /\ UNCHANGED <<resource_updates, refresh_event, observers, event, dispatched>>

Layouts == {<<"charm", "app">>, <<"app">>}

\* Juju (re)deploys the StatefulSet
JujuCreate ==
  /\ ~live.exists
  /\ \E names \in Layouts : live' = Fresh(names)
  /\ last' = NoRec("external")
  /\ prev' = Summary(last)
  /\ UNCHANGED <<resource_updates, refresh_event, observers, event, dispatched>>

\* the mappings a caller passes as resource_updates: any spec, or none, for
\* "charm"; the string-valued spec, or none, for "app"
DesiredChoices ==
  UNION { { u \in [ns -> DesiredSpecs \cup {StringSpec}] :
              /\ ("charm" \in ns => u["charm"] \in DesiredSpecs)
              /\ ("app" \in ns => u["app"] = StringSpec) } : ns \in SUBSET ContainerNames }

InitWith(updates, refresh, names) ==
  /\ resource_updates = updates
  /\ refresh_event = refresh
  /\ observers = Observe(refresh)
  /\ live = Fresh(names)
  /\ last = NoRec("init")
  /\ prev = "other"
  /\ event = "none"
  /\ dispatched = << >>

\* reconcile() and teardown() called directly, against any live state
Init ==
  \E updates \in DesiredChoices, names \in Layouts :
    InitWith(updates, RefreshNone, names)

Next == Reconcile \/ Teardown \/ ExternalWrite \/ JujuConstraints \/ JujuCreate

Spec == Init /\ [][Next]_vars

\* the handlers driven by the framework's events, for any refresh_event
ExampleUpdates == [n \in {"charm"} |->
                    [k \in ResourceKeys |-> IF k = "memory" THEN MemQty(1) ELSE PyInt(1)]]

InitEvents ==
  \E refresh \in RefreshChoices :
    InitWith(ExampleUpdates, refresh, <<"charm", "app">>)

NextEvents ==
  Install \/ UpdateStatus \/ Remove \/ ConfigChanged \/ UpgradeCharm \/ JujuCreate

EventSpec == InitEvents /\ [][NextEvents]_vars

(* ======================= properties of reconcile ======================== *)
IssuedPatch(rec) == \E i \in DOMAIN rec.calls : rec.calls[i] = "PATCH"
Count(rec, verb) == Cardinality({i \in DOMAIN rec.calls : rec.calls[i] = verb})

\* the latest step was a reconcile whose GET returned the object
Fetched(rec) == rec.op = "reconcile" /\ rec.calls # << >> /\ rec.got # << >>

Managed(c) == c.name \in DOMAIN resource_updates

\* the value the component is asked to keep for key k: cpu as a string
Want(spec, k) ==
  IF k = "cpu" /\ spec[k].t = "int" THEN CpuQty(spec[k].v) ELSE spec[k]

\* container c has limit = request = the desired value for key k
KeyMatches(c, spec, k) ==
  /\ c.limits # PyNone /\ k \in DOMAIN c.limits /\ c.limits[k] = Want(spec, k)
  /\ c.requests # PyNone /\ k \in DOMAIN c.requests /\ c.requests[k] = Want(spec, k)

\* container c differs from its desired spec on a key the spec names
Drifted(c) ==
  Managed(c) /\ \E k \in DOMAIN resource_updates[c.name] :
                   ~KeyMatches(c, resource_updates[c.name], k)

\* every desired spec names at least one resource key (a spec that names none
\* is the documented exception: an empty resource state is written each time)
NamesAKey == \A n \in DOMAIN resource_updates : DOMAIN resource_updates[n] # {}

\* C1: two reconcile() calls in succession with no external change between
\* them, the first of which had its PATCH applied: the second issues no PATCH
\* (stated for desired specs that name at least one key).
C1_Idempotent ==
  (NamesAKey /\ prev = "patched" /\ last.op = "reconcile") => ~IssuedPatch(last)

\* C2: drift is detected per resource key: when every managed container has
\* limit = request = the desired value for every key its spec names, keys the
\* spec does not name cause no PATCH (stated for specs that name a key).
C2_UnspecifiedKeysIgnored ==
  (NamesAKey /\ Fetched(last) /\ \A i \in DOMAIN last.got : ~Drifted(last.got[i]))
    => ~IssuedPatch(last)

\* C3: one reconcile() issues at most one PATCH and no DELETE, and it issues
\* the PATCH exactly when a managed container drifted on a key its spec names
\* (stated for specs that name a key).
C3_PatchOnlyOnDrift ==
  (NamesAKey /\ last.op = "reconcile") =>
    /\ Count(last, "PATCH") <= 1
    /\ Count(last, "DELETE") = 0
    /\ IssuedPatch(last) <=>
         (Fetched(last) /\ \E i \in DOMAIN last.got : Drifted(last.got[i]))

\* C4: once reconcile() has returned without error (its PATCH, if any,
\* applied), every managed container of the live object has limit = request =
\* the desired value (cpu as a string) for every key its spec names.
C4_Converges ==
  (last.op = "reconcile" /\ last.raised = "none") =>
    /\ live.exists
    /\ \A i \in DOMAIN live.containers :
         LET c == live.containers[i] IN
           Managed(c) => \A k \in DOMAIN resource_updates[c.name] :
                           KeyMatches(c, resource_updates[c.name], k)

\* reconcile() repaired a managed container that an external writer had set
\* to other values than the desired ones
C4_Witness ==
  /\ Patched(last)
  /\ \E i \in DOMAIN last.got :
       /\ Managed(last.got[i])
       /\ DOMAIN resource_updates[last.got[i].name] = ResourceKeys
       /\ last.got[i].limits # PyNone /\ last.got[i].requests # PyNone
       /\ last.got[i].limits # last.got[i].requests
       /\ last.sent[i] # last.got[i]

\* the containers of the fetched object that this reconcile() overwrote
Overwritten(rec, i) ==
  /\ Managed(rec.got[i])
  /\ \/ rec.sent[i] # rec.got[i]
     \/ ~_is_patched(rec.got[i], resource_updates[rec.got[i].name])

\* C5: in every object submitted in a PATCH, each container overwritten by
\* this invocation has limits and requests with the same keys and values.
C5_LimitsEqualRequests ==
  IssuedPatch(last) =>
    \A i \in DOMAIN last.sent :
      Overwritten(last, i) =>
        /\ last.sent[i].limits # PyNone
        /\ last.sent[i].requests # PyNone
        /\ DOMAIN last.sent[i].limits = DOMAIN last.sent[i].requests
        /\ \A k \in DOMAIN last.sent[i].limits :
             last.sent[i].limits[k] = last.sent[i].requests[k]

\* a PATCH that wrote both memory and cpu for a container
C5_Witness ==
  /\ IssuedPatch(last)
  /\ \E i \in DOMAIN last.sent :
       /\ Overwritten(last, i)
       /\ last.sent[i].limits # PyNone
       /\ DOMAIN last.sent[i].limits = ResourceKeys

\* C6: in the object submitted in a PATCH, every unmanaged container, and
\* every managed container that already has limit = request = the desired
\* value for every key its spec names, is exactly as GET returned it
\* (stated for specs that name a key).
C6_PartialTargeting ==
  (NamesAKey /\ IssuedPatch(last)) =>
    /\ Len(last.sent) = Len(last.got)
    /\ \A i \in DOMAIN last.got :
         (~Managed(last.got[i]) \/ ~Drifted(last.got[i]))
           => last.sent[i] = last.got[i]

\* the code's memory check cannot be what makes container c differ
MemoryQuiet(c, spec) ==
  IF "memory" \in DOMAIN spec
    THEN KeyMatches(c, spec, "memory")
    ELSE /\ "memory" \notin DOMAIN OrEmpty(c.limits)
         /\ "memory" \notin DOMAIN OrEmpty(c.requests)

\* container c has the string of the number n as its cpu limit and cpu request
HasCpuString(c, n) ==
  /\ c.limits # PyNone /\ "cpu" \in DOMAIN c.limits /\ c.limits["cpu"] = CpuQty(n)
  /\ c.requests # PyNone /\ "cpu" \in DOMAIN c.requests /\ c.requests["cpu"] = CpuQty(n)

\* C7: a desired cpu given as the number n is compared and written as the
\* string of n: a live container whose cpu limit and request are that string
\* is not overwritten on account of cpu (and no PATCH is issued when it is the
\* only managed container); an overwritten container gets that string as cpu
\* limit and request, and its memory as supplied.
C7_CpuCoercion ==
  Fetched(last) =>
    \A i \in DOMAIN last.got :
      LET c == last.got[i] IN
      (Managed(c) /\ "cpu" \in DOMAIN resource_updates[c.name]
                  /\ resource_updates[c.name]["cpu"].t = "int") =>
        LET spec == resource_updates[c.name]
            n == spec["cpu"].v
        IN /\ (HasCpuString(c, n) /\ MemoryQuiet(c, spec)) =>
                /\ IssuedPatch(last) => last.sent[i] = c
                /\ (\A j \in DOMAIN last.got : j # i => ~Managed(last.got[j]))
                     => ~IssuedPatch(last)
           /\ (IssuedPatch(last) /\ last.sent[i] # c) =>
                /\ HasCpuString(last.sent[i], n)
                /\ "memory" \in DOMAIN spec =>
                     /\ last.sent[i].limits["memory"] = spec["memory"]
                     /\ last.sent[i].requests["memory"] = spec["memory"]

\* a reconcile() that found the string of the desired number on the only
\* managed container and issued no PATCH
C7_Witness ==
  /\ Fetched(last) /\ ~IssuedPatch(last) /\ last.raised = "none"
  /\ \E i \in DOMAIN last.got :
       /\ Managed(last.got[i])
       /\ "cpu" \in DOMAIN resource_updates[last.got[i].name]
       /\ resource_updates[last.got[i].name]["cpu"].t = "int"
       /\ HasCpuString(last.got[i], resource_updates[last.got[i].name]["cpu"].v)

(* ======================= properties of teardown ========================= *)
\* C8: teardown() returns without error when the DELETE succeeds and when it
\* fails with 404 (the object is then absent); an ApiError with any other
\* status is raised to the caller.
C8_TeardownErrors ==
  (last.op = "teardown" /\ last.calls = <<"DELETE">>) =>
    /\ last.raised = "none" <=> last.code \in {200, 404}
    /\ last.raised = "none" => ~live.exists
    /\ last.raised # "none" => last.raised = "ApiError" /\ last.code \in ErrorCodes

\* a teardown() of an object that is already gone returned silently
C8_Witness ==
  last.op = "teardown" /\ last.code = 404 /\ last.raised = "none" /\ ~live.exists

\* a reconcile() whose GET did not return the object raises and writes nothing
C9_Raises ==
  /\ (last.op = "reconcile" /\ ~Fetched(last)) =>
       /\ last.raised \in {"ApiError", "ConfigError", "OSError"}
       /\ ~IssuedPatch(last)
       /\ last.sent = << >>
  /\ (last.op = "reconcile" /\ ~live.exists) => last.raised # "none"
  /\ (last.op = "reconcile" /\ last.code = 404) =>
       last.raised = "ApiError" /\ last.calls = <<"GET">> /\ ~live.exists

\* only an external writer makes an absent object exist
C9_NoCreate == (~live.exists /\ live'.exists) => last'.op = "external"

\* C9: when the GET of reconcile() fails (object missing, other API error,
\* configuration error), reconcile() raises, issues no PATCH, and the
\* component never makes an absent StatefulSet exist.
C9_FetchFailureFatal == []C9_Raises /\ [][C9_NoCreate]_vars

\* a reconcile() after a teardown found the object missing and raised
C9_Witness ==
  /\ last.op = "reconcile" /\ last.raised = "ApiError" /\ last.code = 404
  /\ ~live.exists

(* ======================= properties of the binding ====================== *)
RefreshSet == {refresh_event.evts[i] : i \in DOMAIN refresh_event.evts}

Bound(e) ==
  /\ (e \in {"install", "update_status"} \cup RefreshSet
        => dispatched = <<"_patch_statefulset">>)
  /\ (e = "remove" => dispatched = <<"_remove_statefulset">>)
  /\ (e \notin {"install", "update_status", "remove"} \cup RefreshSet
        => dispatched = << >>)

RefreshDisjoint ==
  /\ \A i, j \in DOMAIN refresh_event.evts :
       i # j => refresh_event.evts[i] # refresh_event.evts[j]
  /\ RefreshSet \cap {"install", "update_status", "remove"} = {}

C11_InstallAndUpgradeObserved ==
  event \in {"install", "upgrade_charm"} =>
    \E i \in DOMAIN dispatched : dispatched[i] = "_patch_statefulset"

\* reconcile() found container i of the fetched object to differ
FoundToDiffer(rec, i) ==
  Managed(rec.got[i]) /\ ~_is_patched(rec.got[i], resource_updates[rec.got[i].name])

\* C12: a managed container found to differ is written with limits and
\* requests that hold exactly the keys of its desired spec (keys it had
\* before and the spec does not name are gone); every other container is
\* submitted as fetched.
C12_FullReplace ==
  IssuedPatch(last) =>
    /\ Len(last.sent) = Len(last.got)
    /\ \A i \in DOMAIN last.got :
         IF FoundToDiffer(last, i)
           THEN /\ last.sent[i].name = last.got[i].name
                /\ last.sent[i].limits # PyNone /\ last.sent[i].requests # PyNone
                /\ DOMAIN last.sent[i].limits = DOMAIN resource_updates[last.got[i].name]
                /\ DOMAIN last.sent[i].requests = DOMAIN resource_updates[last.got[i].name]
           ELSE last.sent[i] = last.got[i]

\* an overwrite dropped a key the container had and its spec does not name,
\* next to a container that was left alone
C12_Witness ==
  /\ IssuedPatch(last)
  /\ \E i \in DOMAIN last.got :
       /\ FoundToDiffer(last, i)
       /\ last.got[i].limits # PyNone
       /\ (DOMAIN last.got[i].limits) \ (DOMAIN resource_updates[last.got[i].name]) # {}
       /\ (DOMAIN resource_updates[last.got[i].name]) # {}
  /\ \E j \in DOMAIN last.got :
       ~FoundToDiffer(last, j) /\ last.got[j].limits # PyNone

\* container c has neither limits nor requests set
Unset(c) == c.limits = PyNone /\ c.requests = PyNone

\* reconcile() fetched a managed container with no resources set whose
\* desired spec names a key
FetchedUnset(rec, i) ==
  /\ Managed(rec.got[i]) /\ Unset(rec.got[i])
  /\ DOMAIN resource_updates[rec.got[i].name] # {}

\* the null maps count as drift: a PATCH is issued that sets the container's
\* limits and requests to the desired keys and values
C13_UnsetIsDrift ==
  Fetched(last) =>
    \A i \in DOMAIN last.got :
      FetchedUnset(last, i) =>
        /\ IssuedPatch(last)
        /\ last.sent[i].limits # PyNone /\ last.sent[i].requests # PyNone
        /\ DOMAIN last.sent[i].limits = DOMAIN resource_updates[last.got[i].name]
        /\ \A k \in DOMAIN resource_updates[last.got[i].name] :
             KeyMatches(last.sent[i], resource_updates[last.got[i].name], k)

\* the reconcile() that follows such an applied PATCH issues no PATCH
C13_ThenQuiet ==
  (/\ Patched(last)
   /\ \E i \in DOMAIN last.got : FetchedUnset(last, i)
   /\ last'.op = "reconcile" /\ last' # last)
    => ~IssuedPatch(last')

\* C13: for a managed container whose live limits and requests are both null
\* and a desired spec that names a key, reconcile() detects drift and issues a
\* PATCH setting limits and requests to the desired keys; a following
\* reconcile() with no external change issues no PATCH.
C13_UnsetResources == []C13_UnsetIsDrift /\ [][C13_ThenQuiet]_vars

\* the names of the containers of a pod template, in order
NamesOf(cs) == [i \in 1..Len(cs) |-> cs[i].name]

\* a desired container name that names no container of the fetched object
MissingNames(rec) ==
  (DOMAIN resource_updates) \ {rec.got[i].name : i \in DOMAIN rec.got}

\* C14: a desired container name that names no container of the live pod
\* template causes no error and no modification: no container is added for
\* it and only an API failure makes reconcile() raise; when none of the
\* desired names is present, reconcile() returns and issues no PATCH.
C14_MissingContainerIgnored ==
  (Fetched(last) /\ MissingNames(last) # {}) =>
    /\ last.raised # "none" => (last.raised = "ApiError" /\ IssuedPatch(last))
    /\ IssuedPatch(last) => NamesOf(last.sent) = NamesOf(last.got)
    /\ NamesOf(live.containers) = NamesOf(last.got)
    /\ (\A i \in DOMAIN last.got : ~Managed(last.got[i])) =>
         /\ last.raised = "none"
         /\ ~IssuedPatch(last)
         /\ live.containers = last.got

\* reconcile() ran with a desired name that the live object does not have
\* and no desired name that it has
C14_Witness ==
  /\ Fetched(last) /\ MissingNames(last) # {}
  /\ \A i \in DOMAIN last.got : ~Managed(last.got[i])
  /\ \E i \in DOMAIN last.got : last.got[i].limits # PyNone

\* container c is managed with a desired spec that names no resource key
EmptySpec(c) == Managed(c) /\ DOMAIN resource_updates[c.name] = {}

Handler(rec) == rec.op \in {"reconcile", "teardown"}

\* C16: one invocation makes at most one GET, one PATCH and one DELETE; an
\* API call that fails (teardown's 404 aside) is the last call of the
\* invocation and its ApiError is raised to the caller.
C16_NoRetry ==
  Handler(last) =>
    /\ Count(last, "GET") <= 1
    /\ Count(last, "PATCH") <= 1
    /\ Count(last, "DELETE") <= 1
    /\ last.raised = "ApiError" =>
         /\ last.code \in ErrorCodes \cup {404}
         /\ \/ last.op = "reconcile" /\ last.calls = <<"GET">> /\ last.got = << >>
            \/ /\ last.op = "reconcile" /\ last.calls = <<"GET", "PATCH">>
               /\ last.got # << >> /\ live.containers = last.got
            \/ last.op = "teardown" /\ last.calls = <<"DELETE">> /\ last.code # 404
    /\ (last.code \notin {0, 200} /\ ~(last.op = "teardown" /\ last.code = 404))
         => last.raised = "ApiError"

\* a PATCH failed and reconcile() raised after that one attempt
C16_Witness ==
  /\ last.op = "reconcile" /\ last.raised = "ApiError"
  /\ last.calls = <<"GET", "PATCH">> /\ last.code \in ErrorCodes

\* C17 as stated: after any earlier invocations a teardown() issues exactly
\* one DELETE and no GET or PATCH, and a reconcile() never issues a DELETE.
C17_TeardownUnconditional ==
  /\ last.op = "teardown" => last.calls = <<"DELETE">>
  /\ last.op = "reconcile" => Count(last, "DELETE") = 0

\* C17 as amended: a teardown() issues exactly one DELETE and no GET or
\* PATCH, or no API call at all when it raises because the client cannot be
\* configured or the namespace file cannot be read; a reconcile() never
\* issues a DELETE.
C17_TeardownIndependent ==
  /\ last.op = "teardown" =>
       \/ last.calls = <<"DELETE">>
       \/ last.calls = << >> /\ last.raised \in {"ConfigError", "OSError"}
  /\ last.op = "reconcile" => Count(last, "DELETE") = 0

\* a teardown() right after a reconcile() that patched issued its one DELETE
C17_Witness ==
  /\ last.op = "teardown" /\ prev = "patched"
  /\ last.calls = <<"DELETE">> /\ last.raised = "none" /\ ~live.exists
====
